---------------------------- MODULE Spec2Model ----------------------------
(***************************************************************************)
(* Model of the Health view (src/unnamed/part_000): the AQI classifier,    *)
(* the four useQuery fetch operations with their retry policy and tab      *)
(* gating, the fallback data, the two chart shapers and the outcome of     *)
(* rendering the view.                                                     *)
(*                                                                         *)
(* JavaScript values are represented as follows.  An object is a function  *)
(* from its keys to its values, so `"k" \in DOMAIN o` is `o.k !== undefined`*)
(* and the empty object is the function with the empty domain.  undefined  *)
(* is the record Undefined.  An array is a sequence, read through Index    *)
(* with JavaScript's zero-based subscript.  A property whose value is      *)
(* undefined is a key that the object does not have.                       *)
(***************************************************************************)
EXTENDS Integers, Sequences, FiniteSets, TLC

VARIABLES
    activeTab,      \* useState('air-quality'), line 79
    data,           \* per domain: useQuery's `data`
    status,         \* per domain: the query's status (pending / success / error)
    attempt,        \* per domain: none / inflight (request out) / delay (retry timer)
    failureCount,   \* per domain: the query's failureCount
    elapsed,        \* per domain: ms elapsed on the retry timer
    requests,       \* per domain: requests issued in the current fetch cycle
    call,           \* the pure function under application, with its arguments
    ret             \* what that application returned or threw

fetchVars == <<activeTab, data, status, attempt, failureCount, elapsed, requests>>
fnVars == <<call, ret>>
vars == <<activeTab, data, status, attempt, failureCount, elapsed, requests, call, ret>>

-----------------------------------------------------------------------------
(* JavaScript values *)

Undefined == [undefined |-> TRUE]
EmptyObject == [k \in {} |-> TRUE]

\* `!v` for the values the model passes around (undefined or an object)
Falsy(v) == "undefined" \in DOMAIN v

\* `o.k` being present (not undefined)
Has(o, k) == k \in DOMAIN o

\* a || b
Or(a, b) == IF Falsy(a) THEN b ELSE a

\* arr[i] with a zero-based subscript; defined only when HasIndex
HasIndex(arr, i) == i >= 0 /\ i < Len(arr)
Index(arr, i) == arr[i + 1]

\* Array.prototype.slice(start, end) for 0 <= start
Slice(arr, start, end) ==
    LET e == IF end < Len(arr) THEN end ELSE Len(arr)
    IN  IF start >= e THEN <<>> ELSE SubSeq(arr, start + 1, e)

\* a JavaScript number that may be NaN
Num(n) == [nan |-> FALSE, val |-> n]
NaN == [nan |-> TRUE, val |-> 0]
\* a <= b, false whenever a is NaN
Leq(a, b) == ~a.nan /\ a.val <= b

Min(a, b) == IF a < b THEN a ELSE b

-----------------------------------------------------------------------------
(* AQI classifier, lines 69-76 *)

getAQICategory_Lt(aqi) ==
    IF Leq(aqi, 49) THEN [label |-> "Good", color |-> "bg-green-100 text-green-800", progressColor |-> "bg-green-500"]
    ELSE IF Leq(aqi, 99) THEN [label |-> "Moderate", color |-> "bg-yellow-100 text-yellow-800", progressColor |-> "bg-yellow-500"]
    ELSE IF Leq(aqi, 149) THEN [label |-> "Unhealthy for Sensitive Groups", color |-> "bg-orange-100 text-orange-800", progressColor |-> "bg-orange-500"]
    ELSE IF Leq(aqi, 199) THEN [label |-> "Unhealthy", color |-> "bg-red-100 text-red-800", progressColor |-> "bg-red-500"]
    ELSE IF Leq(aqi, 299) THEN [label |-> "Very Unhealthy", color |-> "bg-purple-100 text-purple-800", progressColor |-> "bg-purple-500"]
    ELSE [label |-> "Hazardous", color |-> "bg-rose-100 text-rose-800", progressColor |-> "bg-rose-800"]

getAQICategory(aqi) ==
    IF Leq(aqi, 50) THEN [label |-> "Good", color |-> "bg-green-100 text-green-800", progressColor |-> "bg-green-500"]
    ELSE IF Leq(aqi, 100) THEN [label |-> "Moderate", color |-> "bg-yellow-100 text-yellow-800", progressColor |-> "bg-yellow-500"]
    ELSE IF Leq(aqi, 150) THEN [label |-> "Unhealthy for Sensitive Groups", color |-> "bg-orange-100 text-orange-800", progressColor |-> "bg-orange-500"]
    ELSE IF Leq(aqi, 200) THEN [label |-> "Unhealthy", color |-> "bg-red-100 text-red-800", progressColor |-> "bg-red-500"]
    ELSE IF Leq(aqi, 300) THEN [label |-> "Very Unhealthy", color |-> "bg-purple-100 text-purple-800", progressColor |-> "bg-purple-500"]
    ELSE [label |-> "Hazardous", color |-> "bg-rose-100 text-rose-800", progressColor |-> "bg-rose-800"]

-----------------------------------------------------------------------------
(* Dates.  An instant is a number of ticks since the epoch, TicksPerHour   *)
(* ticks to the hour.  A time zone has one offset (in hours) before the    *)
(* instant `at` and one from it on, so a zone without daylight saving has  *)
(* both equal.  A date string is its fields: day, hour and sub-hour ticks, *)
(* with utc telling a trailing Z; a date-only string has the day alone.    *)

TicksPerHour == 2
TicksPerDay == 24 * TicksPerHour

Offset(zone, t) == IF t < zone.at THEN zone.before ELSE zone.after

\* LocalTime(t) of ECMAScript
LocalTime(zone, t) == t + Offset(zone, t) * TicksPerHour

\* UTC(t) of ECMAScript: a local time that is skipped or repeated at a
\* transition is read with the offset in force before the transition
UTC(zone, tl) ==
    LET t1 == tl - zone.before * TicksPerHour
        t2 == tl - zone.after * TicksPerHour
    IN  IF t1 >= zone.at /\ t2 >= zone.at THEN t2 ELSE t1

\* Date.prototype.getHours
getHours(zone, t) == (LocalTime(zone, t) \div TicksPerHour) % 24

\* Date.prototype.setHours(h): the local hour field becomes h, the smaller
\* fields stay, and h beyond 23 carries into the day
setHours(zone, t, h) ==
    LET tl == LocalTime(zone, t)
    IN  UTC(zone, tl + (h - getHours(zone, t)) * TicksPerHour)

\* Date.prototype.toISOString
toISOString(t) ==
    [day |-> t \div TicksPerDay, hour |-> (t \div TicksPerHour) % 24,
     sub |-> t % TicksPerHour, utc |-> TRUE]

\* new Date(string): a date-only form is UTC midnight, a date-time form is
\* UTC with a Z and local time without
DateParse(zone, s) ==
    IF ~Has(s, "hour") THEN s.day * TicksPerDay
    ELSE LET fields == (s.day * 24 + s.hour) * TicksPerHour + s.sub
         IN  IF s.utc THEN fields ELSE UTC(zone, fields)

WeekdayShort == <<"Sun", "Mon", "Tue", "Wed", "Thu", "Fri", "Sat">>

\* toLocaleDateString('en-US', { weekday: 'short' }); day 0 of the epoch is a Thursday
toLocaleWeekday(zone, t) == WeekdayShort[(((LocalTime(zone, t) \div TicksPerDay) + 4) % 7) + 1]

-----------------------------------------------------------------------------
(* Fallback data, lines 131-212.  env is what the generator reads from its *)
(* surroundings: the time zone, the clock (now, and the read from which on *)
(* the clock shows one tick more) and the random stream.                   *)

FallbackLength == 24

\* the k-th `new Date()` of one render
Clock(env, k) == env.now + (IF k >= env.tickAt THEN 1 ELSE 0)

\* Math.round(lo + Math.random() * span) for the i-th draw of stream s
RandomRound(env, s, i, lo, span) == lo + ((env.seed + s + i * (s + 1)) % (span + 1))

\* Array.from({ length: 24 }, (_, i) => { date = new Date(); date.setHours(date.getHours() + i); return date.toISOString() })
\* `first` is the number of clock reads made before this array's
FallbackTimes(env, first) ==
    [j \in 1..FallbackLength |->
        LET i == j - 1
            date == Clock(env, first + i)
        IN  toISOString(setHours(env.zone, date, getHours(env.zone, date) + i))]

fallbackAirQualityData(env) ==
    [current |-> [pm2_5 |-> 25, pm10 |-> 40, no2 |-> 15, o3 |-> 30, so2 |-> 8, co |-> 4,
                  aqi |-> 85, aqiCategory |-> getAQICategory(Num(85))],
     hourly |-> [time |-> FallbackTimes(env, 0),
                 pm2_5 |-> [j \in 1..FallbackLength |-> RandomRound(env, 0, j, 20, 10)],
                 pm10 |-> [j \in 1..FallbackLength |-> RandomRound(env, 1, j, 35, 15)],
                 aqi |-> [j \in 1..FallbackLength |-> RandomRound(env, 2, j, 75, 20)]]]

fallbackHealthRecommendationsData ==
    [temperature |-> [current |-> 28, isHot |-> TRUE, isCold |-> FALSE,
                      recommendations |-> <<"Stay hydrated", "Wear lightweight clothing", "Use fans">>],
     uv |-> [index |-> 7, category |-> "High",
             recommendations |-> <<"Apply sunscreen", "Wear sunglasses", "Seek shade">>],
     airQuality |-> [aqi |-> 85, category |-> getAQICategory(Num(85)),
                     recommendations |-> <<"Limit outdoor activities", "Keep windows closed", "Use air purifiers">>]]

fallbackPollenData ==
    [grass |-> [level |-> 2, category |-> "Moderate"],
     tree |-> [level |-> 3, category |-> "High"],
     weed |-> [level |-> 1, category |-> "Low"],
     mold |-> [level |-> 2, category |-> "Moderate"]]

fallbackAqiForecastData(env) ==
    [hourly |-> [time |-> FallbackTimes(env, FallbackLength),
                 european_aqi |-> [j \in 1..FallbackLength |-> RandomRound(env, 3, j, 75, 20)]]]

-----------------------------------------------------------------------------
(* Data shapers, lines 215-240.  A call completes by returning a value or  *)
(* by throwing.                                                            *)

Return(v) == [type |-> "return", value |-> v]
Throw(e) == [type |-> "throw", value |-> e]

ForecastPoints == 24

\* the map callback clamping an index past the end of a value array to
\* the array's last element
AqiPoint_Clamp(zone, hourly, time, i) ==
    LET at(arr) == IF HasIndex(arr, i) THEN Index(arr, i) ELSE Index(arr, Len(arr) - 1)
        keys == {"name"}
                \cup (IF Len(hourly.european_aqi) > 0 THEN {"aqi"} ELSE {})
                \cup (IF Has(hourly, "pm2_5") /\ Len(hourly.pm2_5) > 0 THEN {"pm2_5"} ELSE {})
                \cup (IF Has(hourly, "pm10") /\ Len(hourly.pm10) > 0 THEN {"pm10"} ELSE {})
    IN  [k \in keys |->
            CASE k = "name" -> getHours(zone, DateParse(zone, time))
              [] k = "aqi" -> at(hourly.european_aqi)
              [] k = "pm2_5" -> at(hourly.pm2_5)
              [] k = "pm10" -> at(hourly.pm10)]

\* one element of the map callback's result, lines 220-225
AqiPoint(zone, hourly, time, i) ==
    LET keys == {"name"}
                \cup (IF HasIndex(hourly.european_aqi, i) THEN {"aqi"} ELSE {})
                \cup (IF Has(hourly, "pm2_5") /\ HasIndex(hourly.pm2_5, i) THEN {"pm2_5"} ELSE {})
                \cup (IF Has(hourly, "pm10") /\ HasIndex(hourly.pm10, i) THEN {"pm10"} ELSE {})
    IN  [k \in keys |->
            CASE k = "name" -> getHours(zone, DateParse(zone, time))
              [] k = "aqi" -> Index(hourly.european_aqi, i)
              [] k = "pm2_5" -> Index(hourly.pm2_5, i)
              [] k = "pm10" -> Index(hourly.pm10, i)]

\* the shaper without its slice(0, 24)
formatAqiForecastData_NoSlice(zone, d) ==
    IF Falsy(d) \/ ~Has(d, "hourly") THEN Return(<<>>)
    ELSE LET hourly == d.hourly
         IN  Return([j \in 1..Len(hourly.time) |-> AqiPoint(zone, hourly, hourly.time[j], j - 1)])

formatAqiForecastData(zone, d) ==
    IF Falsy(d) \/ ~Has(d, "hourly") THEN Return(<<>>)
    ELSE LET hourly == d.hourly
             times == Slice(hourly.time, 0, ForecastPoints)
         IN  Return([j \in 1..Len(times) |-> AqiPoint(zone, hourly, times[j], j - 1)])

\* the map callback reading the value arrays one index too far
PollenPoint_Shifted(zone, daily, date, i) ==
    LET keys == {"name"}
                \cup (IF HasIndex(daily.grass_pollen, i + 1) THEN {"grass"} ELSE {})
                \cup (IF HasIndex(daily.tree_pollen, i + 1) THEN {"tree"} ELSE {})
                \cup (IF HasIndex(daily.weed_pollen, i + 1) THEN {"weed"} ELSE {})
    IN  [k \in keys |->
            CASE k = "name" -> toLocaleWeekday(zone, DateParse(zone, date))
              [] k = "grass" -> Index(daily.grass_pollen, i + 1)
              [] k = "tree" -> Index(daily.tree_pollen, i + 1)
              [] k = "weed" -> Index(daily.weed_pollen, i + 1)]

\* one element of the map callback's result, lines 234-239
PollenPoint(zone, daily, date, i) ==
    LET keys == {"name"}
                \cup (IF HasIndex(daily.grass_pollen, i) THEN {"grass"} ELSE {})
                \cup (IF HasIndex(daily.tree_pollen, i) THEN {"tree"} ELSE {})
                \cup (IF HasIndex(daily.weed_pollen, i) THEN {"weed"} ELSE {})
    IN  [k \in keys |->
            CASE k = "name" -> toLocaleWeekday(zone, DateParse(zone, date))
              [] k = "grass" -> Index(daily.grass_pollen, i)
              [] k = "tree" -> Index(daily.tree_pollen, i)
              [] k = "weed" -> Index(daily.weed_pollen, i)]

\* the shaper without its `!data` guard: reading .daily of undefined throws
formatPollenData_NoGuard(zone, d) ==
    IF Falsy(d) THEN Throw("TypeError")
    ELSE IF ~Has(d, "daily") THEN Return(<<>>)
    ELSE LET daily == d.daily
         IN  Return([j \in 1..Len(daily.time) |-> PollenPoint(zone, daily, daily.time[j], j - 1)])

formatPollenData(zone, d) ==
    IF Falsy(d) \/ ~Has(d, "daily") THEN Return(<<>>)
    ELSE LET daily == d.daily
         IN  Return([j \in 1..Len(daily.time) |-> PollenPoint(zone, daily, daily.time[j], j - 1)])

-----------------------------------------------------------------------------
(* The four fetch operations, lines 83-128.  Each useQuery call is a query  *)
(* of the query library with the options the call gives it: `enabled`      *)
(* decides whether the observer starts a fetch, `retry: 3` how many        *)
(* failures are retried and `retryDelay: 1000` the wait before each retry. *)
(* A fetch once started runs on whatever `enabled` becomes, since the      *)
(* component never cancels one.  The fetch machine is modelled as the      *)
(* hooks declare it; what rendering comes to is the separate operator      *)
(* RenderHealth and does not feed back into it.                            *)

Domains == {"airQuality", "aqiForecast", "healthRecommendations", "pollen"}

\* a tab list that also offers the pollen tab
TabTriggers_WithPollen == {"air-quality", "recommendations", "pollen"}

\* the values of the two TabsTrigger elements, lines 250-251
TabTriggers == {"air-quality", "recommendations"}

\* retry: 3 and retryDelay: 1000 of every useQuery call
Retry == 3
RetryDelay == 1000

\* every query enabled whatever the tab
Enabled_Always(d, tab) == TRUE

\* the `enabled` option of each useQuery call, lines 85, 97, 109, 121
Enabled(d, tab) ==
    CASE d = "airQuality" -> TRUE
      [] d = "aqiForecast" -> tab = "air-quality"
      [] d = "healthRecommendations" -> tab = "recommendations"
      [] d = "pollen" -> tab = "pollen"


\* what the endpoints may answer, by the declared shapes of lines 15-56:
\* a full object, or an object without its nested block
AirQualitySnapshot(aqi) ==
    [current |-> [pm2_5 |-> 12, pm10 |-> 20, no2 |-> 5, o3 |-> 9, so2 |-> 2, co |-> 1,
                  aqi |-> aqi, aqiCategory |-> getAQICategory(Num(aqi))]]

HourlyTimes(n, start, utc) ==
    [j \in 1..n |-> [toISOString(start + (j - 1) * TicksPerHour) EXCEPT !.utc = utc]]

\* an AqiForecastData with n timestamps and value arrays of m elements,
\* every element telling its array and its index
ForecastInput(n, m, withPm2_5, withPm10, start, utc) ==
    [hourly |->
        [k \in {"time", "european_aqi"}
               \cup (IF withPm2_5 THEN {"pm2_5"} ELSE {})
               \cup (IF withPm10 THEN {"pm10"} ELSE {}) |->
            CASE k = "time" -> HourlyTimes(n, start, utc)
              [] k = "european_aqi" -> [j \in 1..m |-> 10 + j]
              [] k = "pm2_5" -> [j \in 1..m |-> 100 + j]
              [] k = "pm10" -> [j \in 1..m |-> 200 + j]]]

\* a PollenData with n dates and value arrays of m elements
PollenInput(n, m, startDay) ==
    [daily |-> [time |-> [j \in 1..n |-> [day |-> startDay + j - 1]],
                grass_pollen |-> [j \in 1..m |-> 10 + j],
                tree_pollen |-> [j \in 1..m |-> 100 + j],
                weed_pollen |-> [j \in 1..m |-> 200 + j]]]

\* an AqiForecastData with n timestamps whose three value arrays have
\* lengths of their own
ForecastSkewed(n, la, l25, l10, start) ==
    [hourly |-> [time |-> HourlyTimes(n, start, FALSE),
                 european_aqi |-> [j \in 1..la |-> 10 + j],
                 pm2_5 |-> [j \in 1..l25 |-> 100 + j],
                 pm10 |-> [j \in 1..l10 |-> 200 + j]]]

\* a PollenData with n dates whose three value arrays have lengths of their own
PollenSkewed(n, lg, lt, lw, startDay) ==
    [daily |-> [time |-> [j \in 1..n |-> [day |-> startDay + j - 1]],
                grass_pollen |-> [j \in 1..lg |-> 10 + j],
                tree_pollen |-> [j \in 1..lt |-> 100 + j],
                weed_pollen |-> [j \in 1..lw |-> 200 + j]]]

BaseInstant == (10 * 24 + 7) * TicksPerHour

Payloads(d) ==
    CASE d = "airQuality" -> {AirQualitySnapshot(42), EmptyObject}
      [] d = "aqiForecast" -> {ForecastInput(3, 3, TRUE, FALSE, BaseInstant, FALSE), EmptyObject}
      [] d = "healthRecommendations" ->
            {[fallbackHealthRecommendationsData EXCEPT !.uv.index = 3], EmptyObject}
      [] d = "pollen" -> {PollenInput(2, 2, 19723), EmptyObject}

\* a fetch cycle begins for the domains of S: the first request goes out
BeginFetch(S) ==
    /\ attempt' = [d \in Domains |-> IF d \in S THEN "inflight" ELSE attempt[d]]
    /\ failureCount' = [d \in Domains |-> IF d \in S THEN 0 ELSE failureCount[d]]
    /\ elapsed' = [d \in Domains |-> IF d \in S THEN 0 ELSE elapsed[d]]
    /\ requests' = [d \in Domains |-> IF d \in S THEN 1 ELSE requests[d]]
    /\ status' = [d \in Domains |->
                    IF d \in S /\ Falsy(data[d]) THEN "pending" ELSE status[d]]

\* the component as mounted: activeTab is 'air-quality' and the enabled
\* queries have sent their first request
FetchInit ==
    /\ activeTab = "air-quality"
    /\ data = [d \in Domains |-> Undefined]
    /\ status = [d \in Domains |-> "pending"]
    /\ attempt = [d \in Domains |-> IF Enabled(d, "air-quality") THEN "inflight" ELSE "none"]
    /\ failureCount = [d \in Domains |-> 0]
    /\ elapsed = [d \in Domains |-> 0]
    /\ requests = [d \in Domains |-> IF Enabled(d, "air-quality") THEN 1 ELSE 0]

NoCall == [fn |-> "none"]
NoReturn == [type |-> "none"]

Init ==
    /\ FetchInit
    /\ call = NoCall
    /\ ret = NoReturn

\* a tab change that fetches every enabled idle query, not only those whose
\* `enabled` has just turned true
SelectTab_Every(t, stale) ==
    /\ t # activeTab
    /\ activeTab' = t
    /\ BeginFetch({d \in Domains :
                     /\ Enabled(d, t)
                     /\ attempt[d] = "none"
                     /\ (Falsy(data[d]) \/ stale)})
    /\ UNCHANGED <<data, call, ret>>

\* a tab change that cancels the fetches of the queries it disables
SelectTab_Cancel(t, stale) ==
    /\ t # activeTab
    /\ activeTab' = t
    /\ attempt' = [d \in Domains |->
                     IF ~Enabled(d, activeTab) /\ Enabled(d, t) /\ attempt[d] = "none"
                        /\ (Falsy(data[d]) \/ stale)
                     THEN "inflight"
                     ELSE IF ~Enabled(d, t) THEN "none" ELSE attempt[d]]
    /\ failureCount' = [d \in Domains |-> IF attempt'[d] # attempt[d] THEN 0 ELSE failureCount[d]]
    /\ elapsed' = [d \in Domains |-> IF attempt'[d] # attempt[d] THEN 0 ELSE elapsed[d]]
    /\ requests' = [d \in Domains |->
                     IF attempt[d] = "none" /\ attempt'[d] = "inflight" THEN 1 ELSE requests[d]]
    /\ UNCHANGED <<data, status, call, ret>>

\* onValueChange={setActiveTab}, line 248: the tab changes and, on the
\* re-render, a query whose `enabled` turns true and that is not fetching
\* fetches when it holds no data or its data is stale
SelectTab(t, stale) ==
    /\ t # activeTab
    /\ activeTab' = t
    /\ BeginFetch({d \in Domains :
                     /\ ~Enabled(d, activeTab)
                     /\ Enabled(d, t)
                     /\ attempt[d] = "none"
                     /\ (Falsy(data[d]) \/ stale)})
    /\ UNCHANGED <<data, call, ret>>

\* the request of d resolves with payload p
AttemptSucceeds(d, p) ==
    /\ attempt[d] = "inflight"
    /\ data' = [data EXCEPT ![d] = p]
    /\ status' = [status EXCEPT ![d] = "success"]
    /\ attempt' = [attempt EXCEPT ![d] = "none"]
    /\ failureCount' = [failureCount EXCEPT ![d] = 0]
    /\ UNCHANGED <<activeTab, elapsed, requests, call, ret>>

\* the retry test off by one
ShouldRetry_Leq(count) == count <= Retry

\* retry: 3 - whether a failure with `count` failures before it is retried
ShouldRetry(count) == count < Retry

\* the request of d rejects: the retry timer starts, or with the retries
\* used up the query settles as failed (onError logs it)
AttemptFails(d) ==
    /\ attempt[d] = "inflight"
    /\ failureCount' = [failureCount EXCEPT ![d] = @ + 1]
    /\ IF ShouldRetry(failureCount[d])
       THEN /\ attempt' = [attempt EXCEPT ![d] = "delay"]
            /\ elapsed' = [elapsed EXCEPT ![d] = 0]
            /\ UNCHANGED status
       ELSE /\ attempt' = [attempt EXCEPT ![d] = "none"]
            /\ status' = [status EXCEPT ![d] = "error"]
            /\ UNCHANGED elapsed
    /\ UNCHANGED <<activeTab, data, requests, call, ret>>

TimerStep == RetryDelay \div 2

\* time passes on the retry timer of d
TimerTick(d) ==
    /\ attempt[d] = "delay"
    /\ elapsed[d] < RetryDelay
    /\ elapsed' = [elapsed EXCEPT ![d] = Min(@ + TimerStep, RetryDelay)]
    /\ UNCHANGED <<activeTab, data, status, attempt, failureCount, requests, call, ret>>

\* the retry timer firing at once
DelayOver_Immediate(ms) == ms >= 0

\* retryDelay: 1000 - whether the timer has run out
DelayOver(ms) == ms >= RetryDelay

\* the retry timer of d fires and the next request goes out
RetryAttempt(d) ==
    /\ attempt[d] = "delay"
    /\ DelayOver(elapsed[d])
    /\ attempt' = [attempt EXCEPT ![d] = "inflight"]
    /\ requests' = [requests EXCEPT ![d] = @ + 1]
    /\ UNCHANGED <<activeTab, data, status, failureCount, elapsed, call, ret>>

Next ==
    \/ \E t \in TabTriggers, stale \in BOOLEAN : SelectTab(t, stale)
    \/ \E d \in Domains : \E p \in Payloads(d) : AttemptSucceeds(d, p)
    \/ \E d \in Domains : AttemptFails(d)
    \/ \E d \in Domains : TimerTick(d)
    \/ \E d \in Domains : RetryAttempt(d)

Spec == Init /\ [][Next]_vars

-----------------------------------------------------------------------------
(* What the view reads, and what rendering it comes to *)

\* isLoading of a query: its first fetch is under way and it holds no data
isLoading(d) == status[d] = "pending" /\ attempt[d] # "none"

\* the error flag of a query
isError(d) == status[d] = "error"

\* the fetch of d has settled as failed, its retries used up, and holds no data
FailedWithoutData(d) == status[d] = "error" /\ attempt[d] = "none" /\ Falsy(data[d])

\* the fallback of each domain, lines 131-207
FallbackData(d, env) ==
    CASE d = "airQuality" -> fallbackAirQualityData(env)
      [] d = "aqiForecast" -> fallbackAqiForecastData(env)
      [] d = "healthRecommendations" -> fallbackHealthRecommendationsData
      [] d = "pollen" -> fallbackPollenData

\* effectiveAirQualityData and its three siblings, lines 155 and 210-212
EffectiveData_And(d, env) == IF Falsy(data[d]) THEN data[d] ELSE FallbackData(d, env)

EffectiveData(d, env) == Or(data[d], FallbackData(d, env))

\* the value the JSX reads for each domain: airQualityData (lines 279-385),
\* aqiForecastData (line 409), pollenData (line 467) and
\* healthRecommendationsData (lines 595-647)
ViewData(d) == data[d]

\* the identifiers that are in scope in the JSX of Health: the imports, the
\* module's own declarations and the declarations of lines 79-240
DeclaredIdentifiers ==
    {"getAQICategory", "activeTab", "setActiveTab", "user",
     "airQualityData", "airQualityLoading", "airQualityError",
     "aqiForecastData", "aqiForecastLoading", "aqiForecastError",
     "healthRecommendationsData", "healthRecommendationsLoading", "healthRecommendationsError",
     "pollenData", "pollenLoading", "pollenError",
     "fallbackAirQualityData", "effectiveAirQualityData", "fallbackHealthRecommendationsData",
     "fallbackPollenData", "fallbackAqiForecastData", "effectiveHealthRecommendationsData",
     "effectivePollenData", "effectiveAqiForecastData", "formatAqiForecastData", "formatPollenData"}

\* the Current Air Quality and Health Impact cards, lines 262-396: without
\* the skeleton they read airQualityData.current.aqi and its siblings
AirQualityCards ==
    IF isLoading("airQuality") THEN "rendered"
    ELSE IF Falsy(ViewData("airQuality")) \/ ~Has(ViewData("airQuality"), "current")
         THEN "TypeError"
         ELSE "rendered"

\* the JSX of lines 242-661, evaluated child by child in source order; every
\* TabsContent child expression is evaluated whichever tab is selected
RenderHealth(zone) ==
    IF AirQualityCards # "rendered" THEN AirQualityCards
    ELSE IF ~isLoading("aqiForecast")
            /\ formatAqiForecastData(zone, ViewData("aqiForecast")).type = "throw"
         THEN "TypeError"
    ELSE IF "aqiHistoricalLoading" \notin DeclaredIdentifiers THEN "ReferenceError"
    ELSE IF "aqiHistoricalData" \notin DeclaredIdentifiers THEN "ReferenceError"
    ELSE IF ~isLoading("pollen")
            /\ formatPollenData(zone, ViewData("pollen")).type = "throw"
         THEN "TypeError"
    ELSE "rendered"

-----------------------------------------------------------------------------
(* The pure functions applied to inputs drawn from bounded sets *)

\* time zones: one without daylight saving (Asia/Ho_Chi_Minh) and one on the
\* day its clocks go forward and on the day they go back (America/New_York)
Hanoi == [before |-> 7, after |-> 7, at |-> 0]
SpringForward == [before |-> -5, after |-> -4, at |-> BaseInstant]
FallBack == [before |-> -4, after |-> -5, at |-> BaseInstant - TicksPerHour]
Zones == {Hanoi, SpringForward, FallBack}

\* getAQICategory is tried on -NegativeAqi .. MaxAqi and on NaN
NegativeAqi == 20
MaxAqi == 520
AqiInputs == {Num(n) : n \in (0 - NegativeAqi)..MaxAqi} \cup {NaN}

\* the shapers are tried on time arrays of up to MaxTimeLen elements, with
\* value arrays of the same length or up to MaxShort elements shorter
MaxTimeLen == 30
MaxShort == 1
ValueLens(n) == {m \in 0..n : n - m <= MaxShort}

\* an object that has neither an hourly nor a daily block
AbsentInputs == {Undefined, EmptyObject, fallbackPollenData}

ForecastInputs ==
    UNION {{ForecastInput(n, m, a, b, BaseInstant - 3 * TicksPerHour, utc) :
                m \in ValueLens(n), a \in BOOLEAN, b \in BOOLEAN, utc \in BOOLEAN} :
           n \in 0..MaxTimeLen}

PollenInputs ==
    UNION {{PollenInput(n, m, 19723) : m \in ValueLens(n)} : n \in 0..MaxTimeLen}

\* inputs whose value arrays fall short of the time array each by its own
\* amount, for a short time array and for one longer than the forecast cut
MaxSkew == 3
SkewedTimeLens == {MaxSkew, ForecastPoints + 2}
SkewedLens(n) == {m \in 0..n : n - m <= MaxSkew}

SkewedForecastInputs ==
    UNION {{ForecastSkewed(n, la, l25, l10, BaseInstant - 3 * TicksPerHour) :
                la \in SkewedLens(n), l25 \in SkewedLens(n), l10 \in SkewedLens(n)} :
           n \in SkewedTimeLens}

SkewedPollenInputs ==
    UNION {{PollenSkewed(n, lg, lt, lw, 19723) :
                lg \in SkewedLens(n), lt \in SkewedLens(n), lw \in SkewedLens(n)} :
           n \in SkewedTimeLens}

\* the surroundings of one render: the zone, the clock some hours around
\* BaseInstant, the read at which the clock ticks, the random stream
Envs ==
    [zone : Zones,
     now : {BaseInstant + k * TicksPerHour + sub : k \in {-30, -3, -1, 0, 1}, sub \in 0..(TicksPerHour - 1)},
     tickAt : 0..(2 * FallbackLength),
     seed : {0, 1}]

\* the surroundings tried where a property of the fetch machine reads a fallback
RenderEnvs == [zone : Zones, now : {BaseInstant}, tickAt : {0}, seed : {0}]

FnCalls ==
    {[fn |-> "getAQICategory", aqi |-> a] : a \in AqiInputs}
    \cup {[fn |-> "formatAqiForecastData", zone |-> z, d |-> d] :
            z \in Zones, d \in AbsentInputs \cup ForecastInputs \cup SkewedForecastInputs}
    \cup {[fn |-> "formatPollenData", zone |-> z, d |-> d] :
            z \in Zones, d \in AbsentInputs \cup PollenInputs \cup SkewedPollenInputs}
    \cup {[fn |-> "fallback", env |-> e] : e \in Envs}

FnInit ==
    /\ FetchInit
    /\ call \in FnCalls
    /\ ret = NoReturn

CallGetAQICategory ==
    /\ call.fn = "getAQICategory"
    /\ ret = NoReturn
    /\ ret' = Return(getAQICategory(call.aqi))
    /\ UNCHANGED <<fetchVars, call>>

CallFormatAqiForecastData ==
    /\ call.fn = "formatAqiForecastData"
    /\ ret = NoReturn
    /\ ret' = formatAqiForecastData(call.zone, call.d)
    /\ UNCHANGED <<fetchVars, call>>

CallFormatPollenData ==
    /\ call.fn = "formatPollenData"
    /\ ret = NoReturn
    /\ ret' = formatPollenData(call.zone, call.d)
    /\ UNCHANGED <<fetchVars, call>>

\* one render evaluates the two hourly fallbacks, lines 131-152 and 198-207
GenerateFallback ==
    /\ call.fn = "fallback"
    /\ ret = NoReturn
    /\ ret' = Return([airQuality |-> fallbackAirQualityData(call.env),
                      aqiForecast |-> fallbackAqiForecastData(call.env)])
    /\ UNCHANGED <<fetchVars, call>>

FnNext ==
    \/ CallGetAQICategory
    \/ CallFormatAqiForecastData
    \/ CallFormatPollenData
    \/ GenerateFallback

FnSpec == FnInit /\ [][FnNext]_vars

-----------------------------------------------------------------------------
(* Properties *)

Labels ==
    {"Good", "Moderate", "Unhealthy for Sensitive Groups", "Unhealthy", "Very Unhealthy",
     "Hazardous"}

\* C1: getAQICategory returns, for every number, exactly one of the six
\* tiers, and the tier of the threshold table: <= 50 Good, <= 100 Moderate,
\* <= 150 Unhealthy for Sensitive Groups, <= 200 Unhealthy, <= 300 Very
\* Unhealthy, above 300 Hazardous; negative numbers and numbers above 500
\* included.
C1_ClassifierThresholds ==
    (call.fn = "getAQICategory" /\ ret.type # "none") =>
        /\ ret.type = "return"
        /\ ret.value.label \in Labels
        /\ ~call.aqi.nan =>
            LET a == call.aqi.val
                l == ret.value.label
            IN  /\ (a <= 50) = (l = "Good")
                /\ (50 < a /\ a <= 100) = (l = "Moderate")
                /\ (100 < a /\ a <= 150) = (l = "Unhealthy for Sensitive Groups")
                /\ (150 < a /\ a <= 200) = (l = "Unhealthy")
                /\ (200 < a /\ a <= 300) = (l = "Very Unhealthy")
                /\ (a > 300) = (l = "Hazardous")

C1_Witness ==
    /\ call.fn = "getAQICategory"
    /\ call.aqi = Num(301)
    /\ ret.type = "return"
    /\ ret.value.label = "Hazardous"

\* C2: whatever the selected tab and the state of the four fetches,
\* rendering the Health view completes without a thrown error.
C2_RenderCompletes == \A z \in Zones : RenderHealth(z) = "rendered"

\* C3: for each domain, when its fetch has settled as failed and holds no
\* data, the value the view renders from is that domain's fallback.
C3_ViewRendersFallback ==
    \A d \in Domains :
        FailedWithoutData(d) => \E e \in RenderEnvs : ViewData(d) = FallbackData(d, e)

GatedDomains == {"aqiForecast", "healthRecommendations", "pollen"}

\* the enabled flag of each query agrees with the table of the claim
EnabledAsSpecified ==
    /\ Enabled("airQuality", activeTab)
    /\ Enabled("aqiForecast", activeTab) = (activeTab = "air-quality")
    /\ Enabled("healthRecommendations", activeTab) = (activeTab = "recommendations")
    /\ Enabled("pollen", activeTab) = (activeTab = "pollen")

\* C4 (as stated): the forecast, recommendations and pollen fetches are
\* enabled exactly on their own tab, the air-quality fetch always, and a
\* gated fetch sends no request while its tab is not the selected one.
C4_NoRequestWhileDeselected ==
    /\ []EnabledAsSpecified
    /\ [][\A d \in GatedDomains :
            (attempt[d] # "inflight" /\ attempt'[d] = "inflight") => Enabled(d, activeTab')]_vars

\* C4 (amended): the enabled flags are as stated, and a gated fetch begins
\* no fetch cycle while its tab is not the selected one; the retry requests
\* of a cycle begun on the tab may go out after the tab was left.
C4_NoFetchCycleWhileDeselected ==
    /\ []EnabledAsSpecified
    /\ [][\A d \in GatedDomains :
            (attempt[d] = "none" /\ attempt'[d] = "inflight") => Enabled(d, activeTab')]_vars

C4_Witness ==
    /\ activeTab = "recommendations"
    /\ attempt["healthRecommendations"] = "inflight"
    /\ attempt["aqiForecast"] = "delay"
    /\ requests["pollen"] = 0

\* C5: a failed attempt is retried at most 3 times, each retry going out
\* when 1000 ms have passed since the failure; the failure of the last
\* retry settles the fetch as failed, and a fetch settled as failed sends
\* nothing more (until its enabled flag turns true again).
C5_RetryPolicy ==
    /\ [](\A d \in Domains : requests[d] <= 1 + 3)
    /\ [][\A d \in Domains :
            /\ (attempt[d] = "delay" /\ attempt'[d] = "inflight") =>
                    (elapsed[d] = 1000 /\ requests'[d] = requests[d] + 1)
            /\ (attempt[d] = "inflight" /\ attempt'[d] = "delay") =>
                    (requests[d] <= 3 /\ elapsed'[d] = 0)
            /\ (attempt[d] = "inflight" /\ status'[d] = "error" /\ attempt'[d] = "none") =>
                    requests[d] = 1 + 3
            /\ (status[d] = "error" /\ attempt[d] = "none" /\ attempt'[d] # "none") =>
                    (~Enabled(d, activeTab) /\ Enabled(d, activeTab'))]_vars

C5_Witness ==
    /\ status["airQuality"] = "error"
    /\ attempt["airQuality"] = "none"
    /\ requests["airQuality"] = 4
    /\ failureCount["airQuality"] = 4

BindsIndex(pt, k, arr, i) ==
    IF i < Len(arr) THEN Has(pt, k) /\ pt[k] = arr[i + 1] ELSE ~Has(pt, k)

\* the hour of day a date-time string shows in Hanoi (UTC+7, no daylight saving)
HanoiHour(s) == IF s.utc THEN (s.hour + 7) % 24 ELSE s.hour

\* C7: for a forecast with an hourly block, formatAqiForecastData returns
\* min(24, len(hourly.time)) points in input order; point i is named by the
\* hour of day of time[i], its aqi is european_aqi[i], and its pm2_5 and
\* pm10 are hourly.pm2_5[i] and hourly.pm10[i] when those arrays are there
\* and absent otherwise.
C7_ForecastShape ==
    (/\ call.fn = "formatAqiForecastData"
     /\ ret.type # "none"
     /\ ~Falsy(call.d)
     /\ Has(call.d, "hourly")) =>
        /\ ret.type = "return"
        /\ LET h == call.d.hourly
               out == ret.value
           IN  /\ Len(out) = Min(24, Len(h.time))
               /\ \A j \in 1..Len(out) :
                    /\ out[j].name = getHours(call.zone, DateParse(call.zone, h.time[j]))
                    /\ call.zone = Hanoi => out[j].name = HanoiHour(h.time[j])
                    /\ BindsIndex(out[j], "aqi", h.european_aqi, j - 1)
                    /\ IF Has(h, "pm2_5") THEN BindsIndex(out[j], "pm2_5", h.pm2_5, j - 1)
                       ELSE ~Has(out[j], "pm2_5")
                    /\ IF Has(h, "pm10") THEN BindsIndex(out[j], "pm10", h.pm10, j - 1)
                       ELSE ~Has(out[j], "pm10")

C7_Witness ==
    /\ call.fn = "formatAqiForecastData"
    /\ ret.type = "return"
    /\ Has(call.d, "hourly")
    /\ Len(call.d.hourly.time) = 30
    /\ Len(call.d.hourly.european_aqi) = 30
    /\ Has(call.d.hourly, "pm2_5")
    /\ ~Has(call.d.hourly, "pm10")
    /\ Len(ret.value) = 24
    /\ ret.value[24].aqi = call.d.hourly.european_aqi[24]

\* C8: for a pollen input with a daily block, formatPollenData returns one
\* point per element of daily.time, in order and untruncated, and point i
\* carries grass_pollen[i], tree_pollen[i] and weed_pollen[i].
C8_PollenShape ==
    (/\ call.fn = "formatPollenData"
     /\ ret.type # "none"
     /\ ~Falsy(call.d)
     /\ Has(call.d, "daily")) =>
        /\ ret.type = "return"
        /\ LET dl == call.d.daily
               out == ret.value
           IN  /\ Len(out) = Len(dl.time)
               /\ \A j \in 1..Len(out) :
                    /\ out[j].name = toLocaleWeekday(call.zone, DateParse(call.zone, dl.time[j]))
                    /\ BindsIndex(out[j], "grass", dl.grass_pollen, j - 1)
                    /\ BindsIndex(out[j], "tree", dl.tree_pollen, j - 1)
                    /\ BindsIndex(out[j], "weed", dl.weed_pollen, j - 1)

C8_Witness ==
    /\ call.fn = "formatPollenData"
    /\ call.zone = Hanoi
    /\ ret.type = "return"
    /\ Has(call.d, "daily")
    /\ Len(call.d.daily.time) = 30
    /\ Len(call.d.daily.grass_pollen) = 30
    /\ Len(ret.value) = 30
    /\ ret.value[1] = [name |-> "Mon", grass |-> 11, tree |-> 101, weed |-> 201]
    /\ ret.value[2] = [name |-> "Tue", grass |-> 12, tree |-> 102, weed |-> 202]

\* C9: formatAqiForecastData returns the empty sequence, and throws
\* nothing, when its input is absent or has no hourly block, and
\* formatPollenData when its input is absent or has no daily block; so both
\* for {}.
C9_AbsentInputGivesEmpty ==
    /\ (/\ call.fn = "formatAqiForecastData"
        /\ ret.type # "none"
        /\ (Falsy(call.d) \/ ~Has(call.d, "hourly"))) => ret = Return(<<>>)
    /\ (/\ call.fn = "formatPollenData"
        /\ ret.type # "none"
        /\ (Falsy(call.d) \/ ~Has(call.d, "daily"))) => ret = Return(<<>>)

C9_Witness ==
    /\ call.fn = "formatPollenData"
    /\ Falsy(call.d)
    /\ ret = Return(<<>>)

\* an hourly series of the fallback: 24 timestamps, the first the clock's
\* reading at its own generation, each later one an hour (and no more than
\* the clock's own advance between the two reads) after the one before it
HourlySeries(env, time, first) ==
    /\ Len(time) = 24
    /\ DateParse(env.zone, time[1]) = Clock(env, first)
    /\ \A j \in 2..Len(time) :
         DateParse(env.zone, time[j]) - DateParse(env.zone, time[j - 1])
            = TicksPerHour + (Clock(env, first + j - 1) - Clock(env, first + j - 2))

\* C10: the hourly series of the fallback air-quality snapshot and of the
\* fallback AQI forecast have 24 timestamps, the first at the current hour,
\* each later one an hour after the one before it, and their value arrays
\* (pm2_5, pm10, aqi, european_aqi) have the 24 elements of the time array.
C10_FallbackHourlyShape ==
    (call.fn = "fallback" /\ ret.type # "none") =>
        /\ ret.type = "return"
        /\ LET aq == ret.value.airQuality.hourly
               fc == ret.value.aqiForecast.hourly
           IN  /\ HourlySeries(call.env, aq.time, 0)
               /\ HourlySeries(call.env, fc.time, 24)
               /\ Len(aq.pm2_5) = Len(aq.time)
               /\ Len(aq.pm10) = Len(aq.time)
               /\ Len(aq.aqi) = Len(aq.time)
               /\ Len(fc.european_aqi) = Len(fc.time)

\* C11: the static fallbacks have the shape of the live data: the pollen
\* fallback has a daily block with time, grass_pollen, tree_pollen and
\* weed_pollen, so formatPollenData of it is a non-empty sequence, and the
\* recommendations fallback has temperature, uv and airQuality, each with
\* its readings and a recommendations sequence.
C11_StaticFallbackShape ==
    /\ \A k \in {"temperature", "uv", "airQuality"} :
            /\ Has(fallbackHealthRecommendationsData, k)
            /\ Has(fallbackHealthRecommendationsData[k], "recommendations")
            /\ Len(fallbackHealthRecommendationsData[k].recommendations) > 0
    /\ (/\ call.fn = "formatPollenData"
        /\ call.d = fallbackPollenData
        /\ ret.type # "none") =>
            /\ Has(call.d, "daily")
            /\ \A k \in {"time", "grass_pollen", "tree_pollen", "weed_pollen"} :
                    Has(call.d.daily, k)
            /\ ret.type = "return"
            /\ Len(ret.value) > 0

\* the state of the fetch of d in the terms of the state machine of the
\* fetcher: idle (nothing sent, nothing held), loading (a fetch cycle under
\* way), success or failed (the last cycle's outcome)
FetchState(d) ==
    IF attempt[d] # "none" THEN "loading"
    ELSE IF status[d] = "success" THEN "success"
    ELSE IF status[d] = "error" THEN "failed"
    ELSE "idle"

\* the enabled flag of d turns from false to true in this step
Retriggered(d) == ~Enabled(d, activeTab) /\ Enabled(d, activeTab')

\* C12 (as stated): a fetch moves only idle -> loading -> (success |
\* failed); a failed fetch stays failed, sending nothing, until its enabled
\* flag is re-triggered by its tab being selected again, which starts a new
\* loading cycle; there is no other transition.
C12_OnlyStatedTransitions ==
    [][\A d \in Domains :
        FetchState(d)' # FetchState(d) =>
            \/ FetchState(d) = "idle" /\ FetchState(d)' = "loading"
            \/ FetchState(d) = "loading" /\ FetchState(d)' \in {"success", "failed"}
            \/ FetchState(d) = "failed" /\ FetchState(d)' = "loading" /\ Retriggered(d)]_vars

\* C12 (amended): besides those transitions a fetch that has succeeded goes
\* back to loading when its tab is selected again and its data is stale (a
\* refetch that keeps the data it holds); a settled fetch, failed or
\* succeeded, leaves its state by no other step, and sends nothing while
\* it stays.
C12_TransitionsWithRefetch ==
    [][\A d \in Domains :
        /\ FetchState(d)' # FetchState(d) =>
            \/ FetchState(d) = "idle" /\ FetchState(d)' = "loading"
            \/ FetchState(d) = "loading" /\ FetchState(d)' \in {"success", "failed"}
            \/ /\ FetchState(d) \in {"failed", "success"}
               /\ FetchState(d)' = "loading"
               /\ Retriggered(d)
               /\ requests'[d] = 1
               /\ data'[d] = data[d]
        /\ (FetchState(d) \in {"failed", "success"} /\ FetchState(d)' = FetchState(d)) =>
                requests'[d] = requests[d]]_vars

C12_Witness ==
    /\ activeTab = "recommendations"
    /\ FetchState("aqiForecast") = "failed"
    /\ requests["aqiForecast"] = 4
    /\ status["healthRecommendations"] = "success"
    /\ FetchState("healthRecommendations") = "loading"

\* C13: within one fetch cycle of a domain the attempts are sequential: at
\* most one request of the domain is out at any time (the requests sent
\* exceed the failures received by one while a request is out and by none
\* while the retry timer runs), and attempt n+1 is sent only after attempt
\* n has failed and the 1000 ms timer started at that failure has run out.
C13_SequentialAttempts ==
    /\ [](\A d \in Domains :
            /\ attempt[d] = "inflight" => requests[d] = failureCount[d] + 1
            /\ attempt[d] = "delay" => requests[d] = failureCount[d] /\ requests[d] >= 1)
    /\ [][\A d \in Domains :
            /\ (requests'[d] > requests[d] /\ requests[d] >= 1) =>
                    /\ attempt[d] = "delay"
                    /\ failureCount[d] = requests[d]
                    /\ elapsed[d] = 1000
                    /\ requests'[d] = requests[d] + 1
            /\ (attempt[d] = "inflight" /\ failureCount'[d] > failureCount[d]
                /\ attempt'[d] # "none") =>
                    (attempt'[d] = "delay" /\ elapsed'[d] = 0)]_vars

C13_Witness ==
    /\ attempt["aqiForecast"] = "inflight"
    /\ requests["aqiForecast"] = 3
    /\ failureCount["aqiForecast"] = 2
    /\ attempt["airQuality"] = "delay"
    /\ elapsed["airQuality"] = 500

\* what the fetch of d writes: its data, its flags and its bookkeeping
Touched(d) ==
    \/ data'[d] # data[d]
    \/ status'[d] # status[d]
    \/ attempt'[d] # attempt[d]
    \/ failureCount'[d] # failureCount[d]
    \/ elapsed'[d] # elapsed[d]
    \/ requests'[d] # requests[d]

\* a step of the fetch of one domain leaves the other three domains and the
\* selected tab as they are; a tab selection touches a domain only to start
\* its fetch, and keeps the data it holds
FetchStepsAreLocal ==
    [][/\ activeTab' = activeTab =>
            \A d, e \in Domains : (Touched(d) /\ Touched(e)) => d = e
       /\ activeTab' # activeTab =>
            \A d \in Domains :
                Touched(d) => (/\ attempt[d] = "none"
                               /\ attempt'[d] = "inflight"
                               /\ Retriggered(d)
                               /\ data'[d] = data[d])]_vars

\* every one of the four fetches can be started: it is enabled on the
\* selected tab or on a tab the view lets the user select
EveryFetchCanStart ==
    \A d \in Domains : \E t \in TabTriggers \cup {activeTab} : Enabled(d, t)

\* C14: the four fetches may all be in flight at once, and a
\* step of the fetch of one domain (start, failure, retry, success, final
\* failure) writes that domain's flags and data only, whatever the
\* interleaving.
C14_FourConcurrentAndLocal ==
    /\ []EveryFetchCanStart
    /\ FetchStepsAreLocal

\* the step-locality half of C14 on its own, with three fetches in flight
C14_LocalSteps == FetchStepsAreLocal

C14_ThreeInFlight ==
    /\ attempt["airQuality"] = "inflight"
    /\ attempt["aqiForecast"] = "delay"
    /\ attempt["healthRecommendations"] = "inflight"


\* the fetch of d is under way and the selected tab is not the one that owns it
RunsDeselected(d) == attempt[d] # "none" /\ ~Enabled(d, activeTab)

\* a tab selection leaves a fetch under way whose tab it deselects exactly
\* where it is: its request, its counters and its timer
NotCancelled ==
    \A d \in GatedDomains :
        (activeTab' # activeTab /\ attempt[d] # "none" /\ ~Enabled(d, activeTab')) =>
            /\ attempt'[d] = attempt[d]
            /\ requests'[d] = requests[d]
            /\ failureCount'[d] = failureCount[d]
            /\ elapsed'[d] = elapsed[d]

\* the resolution of a request whose tab is deselected keeps the selected
\* tab and every other domain, and either stores the response as the
\* domain's snapshot or keeps the snapshot the domain had
ResolvesLocally ==
    \A d \in GatedDomains :
        (RunsDeselected(d) /\ attempt[d] = "inflight" /\ attempt'[d] # "inflight") =>
            /\ activeTab' = activeTab
            /\ \A e \in Domains \ {d} : ~Touched(e)
            /\ \/ attempt'[d] = "none" /\ status'[d] = "success" /\ data'[d] \in Payloads(d)
               \/ attempt'[d] = "none" /\ status'[d] = "error" /\ data'[d] = data[d]
                    /\ requests[d] = Retry + 1
               \/ attempt'[d] = "delay" /\ data'[d] = data[d] /\ status'[d] = status[d]

\* a fetch under way can always take its next step, whatever tab is selected
NeverStuck ==
    \A d \in Domains :
        /\ attempt[d] = "inflight" =>
              /\ ENABLED AttemptFails(d)
              /\ \A p \in Payloads(d) : ENABLED AttemptSucceeds(d, p)
        /\ attempt[d] = "delay" =>
              IF DelayOver(elapsed[d]) THEN ENABLED RetryAttempt(d)
                                       ELSE ENABLED TimerTick(d)

\* C15: a request in flight when its tab is deselected is not cancelled; it
\* runs to resolution, its response writes only its own domain's snapshot,
\* never the selected tab or another domain, and the fetch is never stuck
\* in loading.
C15_NoCancellation ==
    /\ []NeverStuck
    /\ [][NotCancelled /\ ResolvesLocally]_vars

C15_Witness ==
    /\ activeTab = "recommendations"
    /\ attempt["aqiForecast"] = "inflight"
    /\ requests["aqiForecast"] = 2
    /\ attempt["healthRecommendations"] = "inflight"


\* a value array of the block has fewer elements than its time array
ShortOf(block, keys) ==
    \E k \in keys : Has(block, k) /\ Len(block[k]) < Len(block.time)

\* point pt, made for index i, has field f exactly when arr has an element
\* at i, and then that element and no other
AbsentOrOwn(pt, f, arr, i) ==
    /\ Has(pt, f) <=> i < Len(arr)
    /\ Has(pt, f) => pt[f] = arr[i + 1]

\* C16: when a value array is shorter than its time array, both shapers
\* still return, without an error, one point per time index (at most 24 for
\* the forecast), and a field whose array has no element at index i is
\* absent from point i instead of holding the value of another index.
C16_ShortArraysDegrade ==
    /\ (/\ call.fn = "formatAqiForecastData"
        /\ ret.type # "none"
        /\ ~Falsy(call.d) /\ Has(call.d, "hourly")
        /\ ShortOf(call.d.hourly, {"european_aqi", "pm2_5", "pm10"})) =>
            /\ ret.type = "return"
            /\ Len(ret.value) = Min(ForecastPoints, Len(call.d.hourly.time))
            /\ \A j \in 1..Len(ret.value) :
                 /\ Has(ret.value[j], "name")
                 /\ AbsentOrOwn(ret.value[j], "aqi", call.d.hourly.european_aqi, j - 1)
                 /\ Has(call.d.hourly, "pm2_5") =>
                        AbsentOrOwn(ret.value[j], "pm2_5", call.d.hourly.pm2_5, j - 1)
                 /\ Has(call.d.hourly, "pm10") =>
                        AbsentOrOwn(ret.value[j], "pm10", call.d.hourly.pm10, j - 1)
    /\ (/\ call.fn = "formatPollenData"
        /\ ret.type # "none"
        /\ ~Falsy(call.d) /\ Has(call.d, "daily")
        /\ ShortOf(call.d.daily, {"grass_pollen", "tree_pollen", "weed_pollen"})) =>
            /\ ret.type = "return"
            /\ Len(ret.value) = Len(call.d.daily.time)
            /\ \A j \in 1..Len(ret.value) :
                 /\ Has(ret.value[j], "name")
                 /\ AbsentOrOwn(ret.value[j], "grass", call.d.daily.grass_pollen, j - 1)
                 /\ AbsentOrOwn(ret.value[j], "tree", call.d.daily.tree_pollen, j - 1)
                 /\ AbsentOrOwn(ret.value[j], "weed", call.d.daily.weed_pollen, j - 1)

C16_Witness ==
    /\ call.fn = "formatAqiForecastData"
    /\ ret.type = "return"
    /\ Has(call.d, "hourly")
    /\ Len(call.d.hourly.time) = ForecastPoints + 2
    /\ Len(call.d.hourly.european_aqi) = ForecastPoints - 1
    /\ Has(call.d.hourly, "pm2_5")
    /\ Len(call.d.hourly.pm2_5) = ForecastPoints + 2
    /\ Len(ret.value) = ForecastPoints
    /\ Has(ret.value[ForecastPoints - 1], "aqi")
    /\ ~Has(ret.value[ForecastPoints], "aqi")
    /\ ret.value[ForecastPoints].pm2_5 = 100 + ForecastPoints


\* the pollen query as the mount left it: never fetched, nothing received
PollenUntouched ==
    /\ attempt["pollen"] = "none"
    /\ status["pollen"] = "pending"
    /\ data["pollen"] = Undefined
    /\ requests["pollen"] = 0
    /\ failureCount["pollen"] = 0
    /\ elapsed["pollen"] = 0

\* C17: from the initial tab 'air-quality', whatever tabs are selected
\* through the two triggers of the view, the selected tab is 'air-quality'
\* or 'recommendations'; so the pollen fetch is never enabled, stays in its
\* initial state and issues no request, and at most one gated fetch is
\* enabled at a time.
C17_PollenNeverFetched ==
    /\ activeTab \in {"air-quality", "recommendations"}
    /\ ~Enabled("pollen", activeTab)
    /\ PollenUntouched
    /\ Cardinality({d \in GatedDomains : Enabled(d, activeTab)}) <= 1

C17_Witness ==
    /\ activeTab = "air-quality"
    /\ status["healthRecommendations"] = "error"
    /\ requests["healthRecommendations"] = Retry + 1
    /\ status["aqiForecast"] = "success"
    /\ PollenUntouched

=============================================================================
